---- MODULE Spec2Model ----
(***************************************************************************)
(* cargo-hf2: model of main() in cargo-hf2/src/main.rs.                    *)
(* The run is one straight line: filter the tool-only flags out of the     *)
(* argument list, run `cargo build`, walk the build messages, pick the USB *)
(* device, convert the artifact, query the device and flash it.  Every     *)
(* fatal condition is a panic or a process exit, after which nothing runs. *)
(***************************************************************************)
EXTENDS Integers, Sequences, FiniteSets, TLC

VARIABLES
    args0,            \* std::env::args().skip(2) as received
    args,             \* the mutable `args` vector handed to cargo build
    opt,              \* the parsed Opt (only vid and pid matter here)
    flagIdx,          \* position of the `for flag in flags` loop
    pc,               \* position of main()
    events,           \* the parsed build messages, in emission order
    status,           \* output.status of the build subprocess
    i,                \* index of the message the loop is at
    target_artifact,  \* Option<Artifact>
    printed,          \* what was written to stdout, in order
    devs,             \* api.device_list(), in enumeration order
    k,                \* index of the device the scan loop is at
    vendor,           \* the scan's `vendor` map, vendorId -> set of productId
    device,           \* the scan loop's Option<HidDevice>
    d,                \* the opened device
    path,             \* the path handed to elf_to_bin
    trace,            \* calls made to the USB/HID, conversion and flashing libraries
    err,              \* which fatal condition ended the run
    exitCode          \* the exit code of the process, once it has ended

vars == <<args0, args, opt, flagIdx, pc, events, status, i, target_artifact,
          printed, devs, k, vendor, device, d, path, trace, err, exitCode>>

\* ---------------------------------------------------------------- bounds
MaxArgs == 5
MaxEvents == 3
MaxDevices == 2

\* ---------------------------------------------------------------- Option
None == <<>>
Some(x) == <<x>>
is_some(o) == o # None

\* ---------------------------------------------------------------- sequences
SeqsUpTo(S, n) == UNION {[1..m -> S] : m \in 0..n}

\* Iterator::position: index of the first element equal to x
position(s, x) ==
    IF \E j \in 1..Len(s) : s[j] = x
    THEN Some(CHOOSE j \in 1..Len(s) : s[j] = x /\ \A h \in 1..(j-1) : s[h] # x)
    ELSE None

\* Vec::remove(index), for an index inside the vector
remove(s, idx) == [j \in 1..(Len(s)-1) |-> IF j < idx THEN s[j] ELSE s[j+1]]

\* ---------------------------------------------------------------- arguments
flags == <<"--pid", "--vid">>
FlagSet == {flags[j] : j \in 1..Len(flags)}

\* the two removals at the same index: the flag, then the token after it
RemovePair_first_only(a, idx) == remove(a, idx)
RemovePair(a, idx) == remove(remove(a, idx), idx)

\* lines 24-27: one round of the loop, for a flag that has a token after it
FilterOne(a, flag) ==
    IF position(a, flag) = None THEN a ELSE RemovePair(a, position(a, flag)[1])

\* parse_hex_16 on the value tokens used below
parse_hex_16(tok) ==
    CASE tok = "0x1" -> 1
      [] tok = "1"   -> 1
      [] tok = "0x2" -> 2
      [] tok = "2"   -> 2
      [] tok = "0x3" -> 3

\* Opt::from_iter: an option is Some exactly when its flag was given
OptValue(a, flag) ==
    IF position(a, flag) = None THEN None
    ELSE Some(parse_hex_16(a[position(a, flag)[1] + 1]))
OptOf(a) == [vid |-> OptValue(a, "--vid"), pid |-> OptValue(a, "--pid")]

\* command lines of whole runs
CommandLines ==
    { <<"--release">>,
      <<"--vid", "0x1">>,
      <<"--pid", "1", "--release">>,
      <<"--vid", "0x1", "--pid", "1">>,
      <<"--release", "--vid", "2", "--bin", "foo", "--pid", "0x3">> }

\* argument lists the filter is applied to on its own
Tokens == {"--pid", "--vid", "--release", "0x1"}
ArgLists == SeqsUpTo(Tokens, MaxArgs)

\* ---------------------------------------------------------------- build
Artifact(exe) == [kind |-> "CompilerArtifact", executable |-> exe, rendered |-> None]
CompilerMessage(r) == [kind |-> "CompilerMessage", executable |-> None, rendered |-> r]
OtherMessage == [kind |-> "Other", executable |-> None, rendered |-> None]

EventSet ==
    { Artifact(Some("bin/a")), Artifact(Some("bin/b")), Artifact(None),
      CompilerMessage(Some("warning")), CompilerMessage(None), OtherMessage }
EventSeqs == SeqsUpTo(EventSet, MaxEvents)

\* ExitStatus: an exit code, or (unix) a terminating signal, or neither
ExitStatus(c, s) == [code |-> c, signal |-> s]
Statuses ==
    { ExitStatus(Some(0), None), ExitStatus(Some(1), None),
      ExitStatus(None, Some(9)), ExitStatus(None, None) }

success(st) == st.code = Some(0)

\* line 73
StatusFailed_never(st) == FALSE
StatusFailed(st) == ~success(st)

\* status.code().or_else(|| status.signal()).unwrap_or(1)
ProcessStatus_signal_ignored(st) == IF is_some(st.code) THEN st.code[1] ELSE 1
ProcessStatus(st) ==
    IF is_some(st.code) THEN st.code[1]
    ELSE IF is_some(st.signal) THEN st.signal[1]
    ELSE 1

\* the exit code of a panicking Rust process
PanicExit == 101

\* artifact.executable.is_some()
HasExecutable_any(a) == TRUE
HasExecutable(a) == is_some(a.executable)

\* target_artifact.is_some() at the second qualifying artifact
AlreadySet_never(t) == FALSE
AlreadySet(t) == is_some(t)

\* where main() is after a panic or a process exit: nowhere
AfterAbort_continue(next) == next
AfterAbort(next) == "done"

\* Result::unwrap / expect on the outcome of a library call
Panics_never(ok) == FALSE
Panics(ok) == ~ok

\* ---------------------------------------------------------------- devices
\* what vendor_map() may return: vendorId -> set of productId
VendorMaps == { [v \in {1} |-> {1, 2}], [v \in {1, 2} |-> {1}] }

Device(v, p, o) == [vendor_id |-> v, product_id |-> p, openable |-> o]
DeviceSet == { Device(1, 1, TRUE), Device(1, 1, FALSE), Device(2, 3, TRUE) }
DeviceLists == SeqsUpTo(DeviceSet, MaxDevices)

\* lines 93-94: vendor.get(vendor_id) is Some(products) and products contains product_id
Matches_vendor_only(vm, di) == di.vendor_id \in DOMAIN vm
Matches(vm, di) ==
    /\ di.vendor_id \in DOMAIN vm
    /\ di.product_id \in vm[di.vendor_id]

\* line 79: if let (Some(v), Some(p)) = (opt.vid, opt.pid)
ExplicitMode_never(o) == FALSE
ExplicitMode(o) == is_some(o.vid) /\ is_some(o.pid)

\* HidApi::open(vid, pid): the first enumerated device with that id pair, if it opens
OpenByIds(list, v, p) ==
    LET hit == {j \in 1..Len(list) : list[j].vendor_id = v /\ list[j].product_id = p}
    IN  IF hit = {} THEN None
        ELSE LET j == CHOOSE j \in hit : \A h \in hit : j <= h
             IN  IF list[j].openable THEN Some(j) ELSE None

\* target_artifact.unwrap().executable.unwrap().into_std_path_buf()
ExecutablePath_or_stale(t) == IF t = None THEN Some("bin/stale") ELSE t[1].executable
ExecutablePath(t) == IF t = None THEN None ELSE t[1].executable

Call(op, arg, ok) == [op |-> op, arg |-> arg, ok |-> ok]

\* ---------------------------------------------------------------- initial states
InitRest ==
    /\ args = args0
    /\ flagIdx = 1
    /\ pc = "filter"
    /\ events = <<>>
    /\ status = ExitStatus(None, None)
    /\ i = 1
    /\ target_artifact = None
    /\ printed = <<>>
    /\ devs = <<>>
    /\ k = 1
    /\ vendor = <<>>
    /\ device = None
    /\ d = None
    /\ path = ""
    /\ trace = <<>>
    /\ err = "none"
    /\ exitCode = None

Init ==
    /\ args0 \in CommandLines
    /\ opt = OptOf(args0)
    /\ InitRest

InitFilter ==
    /\ args0 \in ArgLists
    /\ opt = [vid |-> None, pid |-> None]
    /\ InitRest

\* a panic: the message names the condition, the process ends with PanicExit
Panic(e, next) ==
    /\ err' = e
    /\ pc' = AfterAbort(next)
    /\ exitCode' = Some(PanicExit)

\* ---------------------------------------------------------------- lines 22-28
FilterFlag ==
    /\ pc = "filter"
    /\ LET flag == flags[flagIdx]
           pos == position(args, flag)
           next == IF flagIdx = Len(flags) THEN "build" ELSE "filter"
       IN  IF pos = None
           THEN /\ pc' = next
                /\ flagIdx' = flagIdx + 1
                /\ UNCHANGED <<args, err, exitCode>>
           ELSE IF pos[1] = Len(args)
           THEN \* the second args.remove(index) is out of bounds
                /\ args' = remove(args, pos[1])
                /\ Panic("RemoveOutOfBounds", next)
                /\ UNCHANGED flagIdx
           ELSE /\ args' = FilterOne(args, flag)
                /\ pc' = next
                /\ flagIdx' = flagIdx + 1
                /\ UNCHANGED <<err, exitCode>>
    /\ UNCHANGED <<args0, opt, events, status, i, target_artifact, printed,
                   devs, k, vendor, device, d, path, trace>>

\* ---------------------------------------------------------------- lines 34-46
Build ==
    /\ pc = "build"
    /\ \E evs \in EventSeqs, st \in Statuses :
          /\ events' = evs
          /\ status' = st
    /\ i' = 1
    /\ pc' = "messages"
    /\ UNCHANGED <<args0, args, opt, flagIdx, target_artifact, printed,
                   devs, k, vendor, device, d, path, trace, err, exitCode>>

\* spawn() or wait_with_output() failed: unwrap panics
BuildUnavailable ==
    /\ pc = "build"
    /\ Panic("BuildToolUnavailable", "messages")
    /\ UNCHANGED <<args0, args, opt, flagIdx, events, status, i, target_artifact,
                   printed, devs, k, vendor, device, d, path, trace>>

\* ---------------------------------------------------------------- lines 50-71
HandleArtifact ==
    /\ pc = "messages"
    /\ i <= Len(events)
    /\ events[i].kind = "CompilerArtifact"
    /\ IF HasExecutable(events[i])
       THEN IF AlreadySet(target_artifact)
            THEN /\ Panic("AmbiguousArtifact", "messages")
                 /\ UNCHANGED <<i, target_artifact>>
            ELSE /\ target_artifact' = Some(events[i])
                 /\ i' = i + 1
                 /\ UNCHANGED <<pc, err, exitCode>>
       ELSE /\ i' = i + 1
            /\ UNCHANGED <<pc, err, exitCode, target_artifact>>
    /\ UNCHANGED <<args0, args, opt, flagIdx, events, status, printed,
                   devs, k, vendor, device, d, path, trace>>

HandleCompilerMessage ==
    /\ pc = "messages"
    /\ i <= Len(events)
    /\ events[i].kind = "CompilerMessage"
    /\ printed' = IF is_some(events[i].rendered)
                  THEN Append(printed, events[i].rendered[1])
                  ELSE printed
    /\ i' = i + 1
    /\ UNCHANGED <<args0, args, opt, flagIdx, pc, events, status, target_artifact,
                   devs, k, vendor, device, d, path, trace, err, exitCode>>

HandleOther ==
    /\ pc = "messages"
    /\ i <= Len(events)
    /\ events[i].kind = "Other"
    /\ i' = i + 1
    /\ UNCHANGED <<args0, args, opt, flagIdx, pc, events, status, target_artifact,
                   printed, devs, k, vendor, device, d, path, trace, err, exitCode>>

\* ---------------------------------------------------------------- lines 73-75, 139-144
ExitWithProcessStatus ==
    /\ pc = "messages"
    /\ i > Len(events)
    /\ StatusFailed(status)
    /\ err' = "BuildFailed"
    /\ exitCode' = Some(ProcessStatus(status))
    /\ pc' = AfterAbort("hid")
    /\ UNCHANGED <<args0, args, opt, flagIdx, events, status, i, target_artifact,
                   printed, devs, k, vendor, device, d, path, trace>>

BuildSucceeded ==
    /\ pc = "messages"
    /\ i > Len(events)
    /\ ~StatusFailed(status)
    /\ pc' = "hid"
    /\ UNCHANGED <<args0, args, opt, flagIdx, events, status, i, target_artifact,
                   printed, devs, k, vendor, device, d, path, trace, err, exitCode>>

\* ---------------------------------------------------------------- line 77
HidApiNew ==
    /\ pc = "hid"
    /\ \E list \in DeviceLists, ok \in BOOLEAN :
          /\ trace' = Append(trace, Call("HidApi::new", None, ok))
          /\ IF ok
             THEN /\ devs' = list
                  /\ pc' = "select"
                  /\ UNCHANGED <<err, exitCode>>
             ELSE /\ Panic("UsbUnavailable", "select")
                  /\ UNCHANGED devs
    /\ UNCHANGED <<args0, args, opt, flagIdx, events, status, i, target_artifact,
                   printed, k, vendor, device, d, path>>

\* ---------------------------------------------------------------- lines 79-81
OpenExplicit ==
    /\ pc = "select"
    /\ ExplicitMode(opt)
    /\ LET h == OpenByIds(devs, opt.vid[1], opt.pid[1])
       IN  /\ trace' = Append(trace, Call("open", <<opt.vid[1], opt.pid[1]>>, is_some(h)))
           /\ IF is_some(h)
              THEN /\ d' = h
                   /\ pc' = "trying"
                   /\ UNCHANGED <<err, exitCode>>
              ELSE /\ Panic("DeviceNotFound", "trying")
                   /\ UNCHANGED d
    /\ UNCHANGED <<args0, args, opt, flagIdx, events, status, i, target_artifact,
                   printed, devs, k, vendor, device, path>>

\* ---------------------------------------------------------------- lines 83-92
StartScan ==
    /\ pc = "select"
    /\ ~ExplicitMode(opt)
    /\ printed' = Append(printed, "Searching")
    /\ device' = None
    /\ \E vm \in VendorMaps : vendor' = vm
    /\ trace' = trace \o <<Call("vendor_map", None, TRUE), Call("device_list", None, TRUE)>>
    /\ k' = 1
    /\ pc' = "scan"
    /\ UNCHANGED <<args0, args, opt, flagIdx, events, status, i, target_artifact,
                   devs, d, path, err, exitCode>>

\* ---------------------------------------------------------------- lines 92-101
ScanDevice ==
    /\ pc = "scan"
    /\ k <= Len(devs)
    /\ LET looked == Append(trace, Call("vendor.get", <<k>>, TRUE))
       IN  IF Matches(vendor, devs[k])
           THEN /\ trace' = Append(looked, Call("open_device", <<k>>, devs[k].openable))
                /\ IF devs[k].openable
                   THEN /\ device' = Some(k)
                        /\ pc' = "expect"
                        /\ UNCHANGED k
                   ELSE /\ k' = k + 1
                        /\ UNCHANGED <<device, pc>>
           ELSE /\ trace' = looked
                /\ k' = k + 1
                /\ UNCHANGED <<device, pc>>
    /\ UNCHANGED <<args0, args, opt, flagIdx, events, status, i, target_artifact,
                   printed, devs, vendor, d, path, err, exitCode>>

\* ---------------------------------------------------------------- line 102
ExpectDevice ==
    /\ \/ pc = "expect"
       \/ pc = "scan" /\ k > Len(devs)
    /\ IF is_some(device)
       THEN /\ d' = device
            /\ pc' = "trying"
            /\ UNCHANGED <<err, exitCode>>
       ELSE /\ Panic("DeviceNotFound", "trying")
            /\ UNCHANGED d
    /\ UNCHANGED <<args0, args, opt, flagIdx, events, status, i, target_artifact,
                   printed, devs, k, vendor, device, path, trace>>

\* ---------------------------------------------------------------- lines 105-110
Trying ==
    /\ pc = "trying"
    /\ trace' = Append(trace, Call("get_strings", d, TRUE))
    /\ printed' = Append(printed, "Trying")
    /\ pc' = "path"
    /\ UNCHANGED <<args0, args, opt, flagIdx, events, status, i, target_artifact,
                   devs, k, vendor, device, d, path, err, exitCode>>

\* ---------------------------------------------------------------- lines 112-118
UnwrapArtifact ==
    /\ pc = "path"
    /\ LET p == ExecutablePath(target_artifact)
       IN  IF p = None
           THEN /\ Panic("NoArtifact", "convert")
                /\ UNCHANGED <<path, printed>>
           ELSE /\ path' = p[1]
                /\ printed' = Append(printed, "Flashing")
                /\ pc' = "convert"
                /\ UNCHANGED <<err, exitCode>>
    /\ UNCHANGED <<args0, args, opt, flagIdx, events, status, i, target_artifact,
                   devs, k, vendor, device, d, trace>>

\* ---------------------------------------------------------------- line 120
ElfToBin ==
    /\ pc = "convert"
    /\ \E ok \in BOOLEAN :
          /\ trace' = Append(trace, Call("elf_to_bin", Some(path), ok))
          /\ IF Panics(ok)
             THEN Panic("ConversionFailed", "bin_info")
             ELSE pc' = "bin_info" /\ UNCHANGED <<err, exitCode>>
    /\ UNCHANGED <<args0, args, opt, flagIdx, events, status, i, target_artifact,
                   printed, devs, k, vendor, device, d, path>>

\* ---------------------------------------------------------------- line 125
BinInfo ==
    /\ pc = "bin_info"
    /\ \E ok \in BOOLEAN :
          /\ trace' = Append(trace, Call("bin_info", d, ok))
          /\ IF Panics(ok)
             THEN Panic("DeviceQueryFailed", "flash")
             ELSE pc' = "flash" /\ UNCHANGED <<err, exitCode>>
    /\ UNCHANGED <<args0, args, opt, flagIdx, events, status, i, target_artifact,
                   printed, devs, k, vendor, device, d, path>>

\* ---------------------------------------------------------------- lines 128-137
FlashBin ==
    /\ pc = "flash"
    /\ \E ok \in BOOLEAN :
          /\ trace' = Append(trace, Call("flash_bin", d, ok))
          /\ IF Panics(ok)
             THEN /\ Panic("FlashFailed", "done")
                  /\ UNCHANGED printed
             ELSE /\ printed' = Append(printed, "Finished")
                  /\ pc' = "done"
                  /\ exitCode' = Some(0)
                  /\ UNCHANGED err
    /\ UNCHANGED <<args0, args, opt, flagIdx, events, status, i, target_artifact,
                   devs, k, vendor, device, d, path>>

\* ---------------------------------------------------------------- specifications
Next ==
    \/ FilterFlag
    \/ Build
    \/ BuildUnavailable
    \/ HandleArtifact
    \/ HandleCompilerMessage
    \/ HandleOther
    \/ ExitWithProcessStatus
    \/ BuildSucceeded
    \/ HidApiNew
    \/ OpenExplicit
    \/ StartScan
    \/ ScanDevice
    \/ ExpectDevice
    \/ Trying
    \/ UnwrapArtifact
    \/ ElfToBin
    \/ BinInfo
    \/ FlashBin

Spec == Init /\ [][Next]_vars

\* the argument filter on its own, over every argument list up to MaxArgs
NextFilter == FilterFlag

SpecFilter == InitFilter /\ [][NextFilter]_vars

\* ---------------------------------------------------------------- vocabulary of the properties
\* the build subprocess ran and its messages and status are known
Built == pc \notin {"filter", "build"} /\ err \notin {"BuildToolUnavailable", "RemoveOutOfBounds"}
BuildOk == status.code = Some(0)

\* the CompilerArtifact messages that carry an executable
ExeIdx == {j \in 1..Len(events) :
              events[j].kind = "CompilerArtifact" /\ events[j].executable # None}
NumExe == Cardinality(ExeIdx)
FirstExe == CHOOSE j \in ExeIdx : \A h \in ExeIdx : j <= h
SecondExe == CHOOSE j \in ExeIdx \ {FirstExe} : \A h \in ExeIdx \ {FirstExe} : j <= h

\* the positions of the trace at which one of the named calls was made
Ops(names) == {j \in 1..Len(trace) : trace[j].op \in names}

DeviceOps == {"HidApi::new", "open", "vendor_map", "device_list", "vendor.get",
              "open_device", "get_strings", "bin_info", "flash_bin"}
ScanOps == {"vendor_map", "device_list", "vendor.get", "open_device"}
FlashOps == <<"elf_to_bin", "bin_info", "flash_bin">>
FlashOpSet == {FlashOps[j] : j \in 1..Len(FlashOps)}
IsFlashOp(e) == e.op \in FlashOpSet
FlashCalls == SelectSeq(trace, IsFlashOp)

\* what the exit code of a failed build has to be
MirroredStatus ==
    CASE status.code # None -> status.code[1]
      [] status.code = None /\ status.signal # None -> status.signal[1]
      [] OTHER -> 1

\* ---------------------------------------------------------------- C1
\* C1: whenever the build's exit status indicates failure, the run makes no
\* call to the USB/HID or flashing libraries at all (no HidApi::new, no open,
\* no enumeration, no bin_info, no flash_bin), whatever messages the build
\* emitted, one with an executable included.
C1_NoDeviceOnFailedBuild ==
    (Built /\ ~BuildOk) => (Ops(DeviceOps) = {} /\ trace = <<>> /\ d = None)

C1_Witness ==
    /\ pc = "done"
    /\ err = "BuildFailed"
    /\ NumExe = 1
    /\ is_some(target_artifact)

\* ---------------------------------------------------------------- C2
\* C2 as stated: on build failure the exit code of the process is the build's
\* own status (code, else signal, else 1), however many executable artifacts
\* the failed build emitted.
C2_Original ==
    (pc = "done" /\ Built /\ ~BuildOk) => exitCode = Some(MirroredStatus)

\* C2 amended: on build failure the exit code is the build's own status when
\* the messages hold at most one executable artifact; with two or more the run
\* has already panicked with AmbiguousArtifact at the second one.
C2_Amended ==
    (pc = "done" /\ Built /\ ~BuildOk) =>
        IF NumExe <= 1
        THEN err = "BuildFailed" /\ exitCode = Some(MirroredStatus)
        ELSE err = "AmbiguousArtifact" /\ exitCode = Some(PanicExit)

C2_Witness ==
    /\ pc = "done"
    /\ err = "BuildFailed"
    /\ NumExe = 1
    /\ status.signal = Some(9)
    /\ exitCode = Some(9)

\* ---------------------------------------------------------------- C3
\* C3: when the messages hold two or more artifacts with an executable, the run
\* fails with AmbiguousArtifact whatever else is interleaved: the loop never
\* gets past the second such message, it stops exactly there, and the recorded
\* target stays the first one.
C3_Ambiguous ==
    (Built /\ NumExe >= 2) =>
        /\ pc \in {"messages", "done"}
        /\ i <= SecondExe
        /\ pc = "done" => (err = "AmbiguousArtifact" /\ i = SecondExe)
        /\ is_some(target_artifact) <=> i > FirstExe
        /\ is_some(target_artifact) => target_artifact = Some(events[FirstExe])
        /\ trace = <<>>

C3_Witness ==
    /\ pc = "done"
    /\ err = "AmbiguousArtifact"
    /\ Len(events) = 3
    /\ events[2].kind # "CompilerArtifact"
    /\ i = 3

\* ---------------------------------------------------------------- C4
\* C4: for a successful build whose messages hold exactly one artifact with an
\* executable, resolution succeeds (no AmbiguousArtifact, no NoArtifact) and
\* the path given to elf_to_bin is that artifact's executable path, whatever
\* messages surround it.
C4_SingleArtifact ==
    (Built /\ BuildOk /\ NumExe = 1) =>
        /\ err \notin {"AmbiguousArtifact", "NoArtifact", "BuildFailed"}
        /\ i > FirstExe => target_artifact = Some(events[FirstExe])
        /\ pc \in {"convert", "bin_info", "flash"} => path = events[FirstExe].executable[1]
        /\ \A j \in Ops({"elf_to_bin"}) : trace[j].arg = events[FirstExe].executable

C4_Witness ==
    /\ Ops({"elf_to_bin"}) # {}
    /\ BuildOk
    /\ Len(events) = 3
    /\ events[1] = Artifact(None)
    /\ events[2] = Artifact(Some("bin/b"))
    /\ events[3].kind = "CompilerMessage"
    /\ path = "bin/b"

\* ---------------------------------------------------------------- C5
\* C5 as stated: for a successful build whose messages hold no artifact with
\* an executable, the run fails with NoArtifact and neither conversion nor
\* flashing is invoked.
C5_Original ==
    (pc = "done" /\ Built /\ BuildOk /\ NumExe = 0) =>
        /\ err = "NoArtifact"
        /\ Ops({"elf_to_bin", "flash_bin"}) = {}

\* C5 amended: for such a build the run ends in a fatal error and neither
\* conversion nor flashing is invoked; the error is NoArtifact exactly when a
\* device was opened first, and otherwise the USB or device-selection error
\* that ended the run before the missing artifact was looked at.
C5_Amended ==
    (Built /\ BuildOk /\ NumExe = 0) =>
        /\ Ops({"elf_to_bin", "bin_info", "flash_bin"}) = {}
        /\ pc \notin {"convert", "bin_info", "flash"}
        /\ pc = "done" =>
              /\ err \in {"NoArtifact", "DeviceNotFound", "UsbUnavailable"}
              /\ exitCode = Some(PanicExit)
              /\ err = "NoArtifact" <=> is_some(d)

C5_Witness ==
    /\ pc = "done"
    /\ err = "NoArtifact"
    /\ BuildOk
    /\ NumExe = 0
    /\ Len(events) >= 2

\* ---------------------------------------------------------------- C6
BothIds == opt.vid # None /\ opt.pid # None

\* the enumerated devices that are in the VendorMap and open
Candidates == {j \in 1..Len(devs) :
                  /\ devs[j].vendor_id \in DOMAIN vendor
                  /\ devs[j].product_id \in vendor[devs[j].vendor_id]
                  /\ devs[j].openable}
FirstCandidate == CHOOSE j \in Candidates : \A h \in Candidates : j <= h

\* the scan has run to its end (break, or the list exhausted) and line 102 has acted
ScanOver == Ops({"device_list"}) # {} /\ pc \notin {"scan", "expect"}

\* C6: in scan mode the selected device is the first one in enumeration order
\* that is in the VendorMap (vendor and product) and opens; nothing after it is
\* looked up or opened, a device that is not in the VendorMap is never
\* opened, and when no such device opens the run fails with DeviceNotFound.
C6_ScanFirstMatch ==
    ~BothIds =>
        /\ \A j \in Ops({"open_device"}) :
              LET dv == devs[trace[j].arg[1]]
              IN  /\ dv.vendor_id \in DOMAIN vendor
                  /\ dv.product_id \in vendor[dv.vendor_id]
        /\ is_some(device) =>
              /\ Candidates # {}
              /\ device = Some(FirstCandidate)
              /\ \A j \in Ops({"vendor.get", "open_device"}) : trace[j].arg[1] <= device[1]
        /\ is_some(d) => d = device
        /\ ScanOver =>
              IF Candidates = {}
              THEN device = None /\ d = None /\ err = "DeviceNotFound" /\ pc = "done"
              ELSE d = Some(FirstCandidate) /\ err # "DeviceNotFound"

C6_Witness ==
    /\ ~BothIds
    /\ Len(devs) = 2
    /\ devs[1] = Device(1, 1, TRUE)
    /\ devs[2] = Device(1, 1, TRUE)
    /\ d = Some(1)
    /\ Cardinality(Ops({"vendor.get"})) = 1
    /\ pc = "done"
    /\ err = "none"

\* ---------------------------------------------------------------- C7
\* C7: explicit mode is taken exactly when both a vid and a pid were given;
\* then the only device call made to select the device is one open of that
\* exact pair, the VendorMap and the device list are never consulted, and a
\* failed open ends the run with DeviceNotFound; with fewer than two ids the
\* device is selected by the scan and open-by-id is never called.
C7_ExplicitMode ==
    /\ BothIds =>
          /\ Ops(ScanOps) = {}
          /\ vendor = <<>>
          /\ Cardinality(Ops({"open"})) <= 1
          /\ \A j \in Ops({"open"}) : trace[j].arg = <<opt.vid[1], opt.pid[1]>>
          /\ is_some(d) => \E j \in Ops({"open"}) : trace[j].ok
    /\ ~BothIds =>
          /\ Ops({"open"}) = {}
          /\ is_some(d) => Ops({"device_list"}) # {}
    /\ pc \in {"trying", "path", "convert", "bin_info", "flash"} =>
          (BothIds <=> Ops({"open"}) # {}) /\ (~BothIds <=> Ops(ScanOps) # {})
    /\ \A j \in Ops({"open"}) :
          ~trace[j].ok => (j = Len(trace) /\ err = "DeviceNotFound" /\ pc = "done" /\ d = None)

C7_Witness ==
    /\ BothIds
    /\ err = "DeviceNotFound"
    /\ Ops({"open"}) # {}
    /\ devs = <<Device(1, 1, FALSE), Device(1, 1, TRUE)>>

\* ---------------------------------------------------------------- C8
\* every flag has a token after it, and that token is not a flag itself
WellFormed(a) ==
    \A j \in 1..Len(a) : a[j] \in FlagSet => (j < Len(a) /\ a[j+1] \notin FlagSet)

\* the elements of a at the positions in keep, in their original order
RECURSIVE Pick(_, _, _)
Pick(a, keep, j) ==
    IF j > Len(a) THEN <<>>
    ELSE (IF j \in keep THEN <<a[j]>> ELSE <<>>) \o Pick(a, keep, j + 1)

\* positions that are neither a flag nor the token after a flag
OutsideEveryPair(a) ==
    {j \in 1..Len(a) : a[j] \notin FlagSet /\ (j = 1 \/ a[j-1] \notin FlagSet)}

\* positions that are neither the first occurrence of a flag nor the token after it
IsFirst(a, j) == a[j] \in FlagSet /\ \A h \in 1..(j-1) : a[h] # a[j]
OutsideFirstPairs(a) ==
    {j \in 1..Len(a) : ~IsFirst(a, j) /\ (j = 1 \/ ~IsFirst(a, j-1))}

NoFlagLeft(a) == \A j \in 1..Len(a) : a[j] \notin FlagSet
AtMostOnce(a) == \A f \in FlagSet : Cardinality({j \in 1..Len(a) : a[j] = f}) <= 1
FilterAgain(a) == FilterOne(FilterOne(a, flags[1]), flags[2])

C10_FlashSequence ==
    /\ Len(FlashCalls) <= Len(FlashOps)
    /\ \A j \in 1..Len(FlashCalls) : FlashCalls[j].op = FlashOps[j]
    /\ \A j \in 1..(Len(FlashCalls) - 1) : FlashCalls[j].ok
    /\ \A j \in Ops(FlashOpSet) :
          /\ \A h \in 1..(j-1) : trace[h].ok \/ trace[h].op = "open_device"
          /\ ~trace[j].ok =>
                (j = Len(trace) /\ pc = "done" /\ exitCode = Some(PanicExit)
                 /\ err \in {"ConversionFailed", "DeviceQueryFailed", "FlashFailed"})
    /\ Ops({"flash_bin"}) # {} =>
          /\ BuildOk
          /\ NumExe = 1
          /\ target_artifact = Some(events[FirstExe])
          /\ is_some(d)
          /\ \E j \in Ops({"open", "open_device"}) : trace[j].ok
          /\ Len(FlashCalls) = 3
    /\ (pc = "done" /\ err = "none") =>
          (Len(FlashCalls) = 3 /\ FlashCalls[3].ok /\ exitCode = Some(0))

C10_Witness ==
    /\ pc = "done"
    /\ err = "none"
    /\ Len(FlashCalls) = 3
    /\ FlashCalls[3].ok
====
